---------------------------- MODULE Spec2Model ----------------------------
(***************************************************************************)
(* ProgramFilter of mirakc-arib (src/src/program_filter.hh) as a state     *)
(* machine: one HandlePacket step per TS packet, with the table (if any)   *)
(* that the section demultiplexer completes on that packet, the gating     *)
(* decision of WaitReady / DoStreaming, and the packets handed to the      *)
(* sink.  ComparePcr is the helper of the filter as found in               *)
(* src/src/airtime_tracker.hh, lines 206-217.  AirtimeTracker (the same    *)
(* file, lines 20-117) is a second machine with its own specification.     *)
(***************************************************************************)
EXTENDS Integers, Sequences, FiniteSets, TLC

\* ------------------------------------------------------------- bounds ---
\* Width of the PCR counter.  33 in the program; TLC's integers are 32 bits
\* wide, so the counter is modelled with fewer bits (one second is still
\* 90000 ticks and fits several times).
PcrBits == 20
\* Longest PAT / PMT section, in packets, that the model buffers.
MaxBuf == 2

\* ---------------------------------------------------------- constants ---
PID_PAT == 0
PID_EIT == 18
PID_NULL == 8191
kPcrTicksPerMs == 90
MilliSecPerSec == 1000
kPcrUpperBound == 2 ^ PcrBits

kWaitReady == "kWaitReady"
kStreaming == "kStreaming"

TID_PAT == "TID_PAT"
TID_PMT == "TID_PMT"
TID_EIT_PF_ACT == "TID_EIT_PF_ACT"
TID_OTHER == "TID_OTHER"
TID_NONE == "TID_NONE"

\* ------------------------------------------------------------ options ---
\* ProgramFilterOption.  The clock is set half a second after the PCR
\* wrapped, so that the windows of the model lie on both sides of the wrap
\* and a time before the clock maps to a negative tick count.
Options ==
  { [sid |-> 1, eid |-> 4096, clock_pcr |-> 45000,
     clock_time |-> 5000, start_margin |-> 1, end_margin |-> 2,
     pre_streaming |-> p] : p \in BOOLEAN }

\* ------------------------------------------------------ PCR arithmetic ---
Abs(x) == IF x < 0 THEN -x ELSE x

ComparePcr(lhs, rhs) ==
  LET a == lhs - rhs
      b == lhs - (kPcrUpperBound + rhs)
  IN  IF Abs(a) < Abs(b) THEN a ELSE b

\* operator% of C++ on int64_t: the remainder has the sign of the dividend.
Rem(a, b) == IF a >= 0 THEN a % b ELSE -((-a) % b)

\* Mutant: kPcrUpperBound is added once, not until the value is non-negative.
AddOnce(pcr) == IF pcr < 0 THEN pcr + kPcrUpperBound ELSE pcr

\* Lines 345-347: while (pcr < 0) pcr += kPcrUpperBound.
RECURSIVE AddUntilNonNegative(_)
AddUntilNonNegative(pcr) ==
  IF pcr < 0 THEN AddUntilNonNegative(pcr + kPcrUpperBound) ELSE pcr

ConvertTimeToPcr(opt, time) ==
  LET ms == time - opt.clock_time
      pcr == opt.clock_pcr + ms * kPcrTicksPerMs
  IN  Rem(AddUntilNonNegative(pcr), kPcrUpperBound)

\* Mutant: the duration of the event, in seconds, is added as milliseconds.
UpdatePcrRangeSeconds(opt, event) ==
  LET start_time == event.start_time - opt.start_margin
      duration == event.duration + opt.end_margin
      end_time == event.start_time + duration
  IN  [start_pcr |-> ConvertTimeToPcr(opt, start_time),
       end_pcr |-> ConvertTimeToPcr(opt, end_time)]

\* The (start_pcr, end_pcr) that UpdatePcrRange stores for an event.
UpdatePcrRange(opt, event) ==
  LET start_time == event.start_time - opt.start_margin
      duration == event.duration * MilliSecPerSec + opt.end_margin
      end_time == event.start_time + duration
  IN  [start_pcr |-> ConvertTimeToPcr(opt, start_time),
       end_pcr |-> ConvertTimeToPcr(opt, end_time)]

\* ------------------------------------------------------------- inputs ---
PmtPids == {256, 257}
PcrPids == {512, 513}

\* EIT events: the target event as first announced, the target event as
\* revised (one second earlier: its window starts before the wrap and ends
\* after it), and another event.
TargetEvents ==
  { [event_id |-> 4096, start_time |-> 5000, duration |-> 1],
    [event_id |-> 4096, start_time |-> 4000, duration |-> 1] }
\* The target event moved two seconds earlier: its window ends just before
\* the wrap.
EarlyEvent == [event_id |-> 4096, start_time |-> 3000, duration |-> 1]
OtherEvents == { [event_id |-> 4097, start_time |-> 6000, duration |-> 1] }
Events == TargetEvents \cup OtherEvents

\* The event lists of the EITs: none, the present event alone, present and
\* following (the target event is not announced twice; the earliest revision
\* comes alone).
EventLists ==
  {<<>>, <<EarlyEvent>>} \cup {<<e>> : e \in Events}
  \cup {<<e, f>> : e \in TargetEvents, f \in OtherEvents}
  \cup {<<e, f>> : e \in OtherEvents, f \in Events}

Table(tid, source_pid, valid, ts_id, pmt, service_id, pcr_pid, events) ==
  [tid |-> tid, source_pid |-> source_pid, valid |-> valid, ts_id |-> ts_id,
   pmt |-> pmt, service_id |-> service_id, pcr_pid |-> pcr_pid,
   events |-> events]

NoTable == Table(TID_NONE, PID_NULL, FALSE, 0, PID_NULL, 0, PID_NULL, <<>>)

\* PATs: pmt is pat.pmts[option.sid] (ServiceFilter guarantees the entry).
PatTables(source_pid) ==
  { Table(TID_PAT, source_pid, TRUE, 7, p, 0, PID_NULL, <<>>) : p \in PmtPids }
  \cup { Table(TID_PAT, source_pid, TRUE, 0, 257, 0, PID_NULL, <<>>),
         Table(TID_PAT, source_pid, FALSE, 7, 257, 0, PID_NULL, <<>>) }

PmtTables(source_pid) ==
  { Table(TID_PMT, source_pid, TRUE, 0, PID_NULL, 1, p, <<>>) : p \in PcrPids }
  \cup { Table(TID_PMT, source_pid, TRUE, 0, PID_NULL, 2, 513, <<>>),
         Table(TID_PMT, source_pid, FALSE, 0, PID_NULL, 1, 513, <<>>) }

EitTables(source_pid) ==
  { Table(TID_EIT_PF_ACT, source_pid, TRUE, 7, PID_NULL, 1, PID_NULL, es) :
      es \in EventLists }
  \cup { Table(TID_EIT_PF_ACT, source_pid, TRUE, 7, PID_NULL, 2, PID_NULL,
               <<[event_id |-> 4096, start_time |-> 4000, duration |-> 1]>>),
         Table(TID_EIT_PF_ACT, source_pid, FALSE, 7, PID_NULL, 1, PID_NULL,
               <<[event_id |-> 4096, start_time |-> 4000, duration |-> 1]>>) }

\* The tables a packet on `pid` can complete: PAT on the PAT PID, PMT on a
\* PMT PID, and on the EIT PID the EIT p/f actual, the stray PAT that HandlePat
\* describes, and tables of other ids.
TablesOn(pid) ==
  IF pid = PID_PAT THEN PatTables(pid)
  ELSE IF pid = PID_EIT
    THEN EitTables(pid)
         \cup { Table(TID_PAT, pid, TRUE, 7, 256, 0, PID_NULL, <<>>),
                Table(TID_OTHER, pid, TRUE, 0, PID_NULL, 0, PID_NULL, <<>>) }
  ELSE IF pid \in PmtPids THEN PmtTables(pid)
  ELSE {}

\* PCR values carried by the packets: the start and the end of every window
\* and the tick before each start.
PcrSamples ==
  UNION { LET r == UpdatePcrRange(o, e)
          IN  { r.start_pcr, (r.start_pcr + kPcrUpperBound - 1) % kPcrUpperBound,
                r.end_pcr }
          : o \in Options, e \in TargetEvents }

Packet(pid, pusi, hasPCR, pcr) ==
  [pid |-> pid, pusi |-> pusi, hasPCR |-> hasPCR, pcr |-> pcr]

Packets ==
  { Packet(PID_PAT, u, FALSE, 0) : u \in BOOLEAN }
  \cup { Packet(PID_EIT, TRUE, FALSE, 0) }
  \cup { Packet(p, u, FALSE, 0) : p \in PmtPids, u \in BOOLEAN }
  \cup { Packet(p, FALSE, FALSE, 0) : p \in PcrPids }
  \cup { Packet(p, FALSE, TRUE, c) : p \in PcrPids, c \in PcrSamples }

\* ----------------------------------------------------- table handlers ---
\* The members that the table handlers write, as a record:
\* pmt_pid, pcr_pid, start_pcr, end_pcr, pcr_pid_ready, pcr_range_ready,
\* stop, and the PIDs the demultiplexer is subscribed to.
\* Mutant: the PMT PID tracked so far stays subscribed.
HandlePatKeepOld(g, table) ==
  IF table.source_pid # PID_PAT THEN g
  ELSE IF ~table.valid THEN g
  ELSE IF table.ts_id = 0 THEN g
  ELSE [g EXCEPT !.pmt_pid = table.pmt, !.demux = g.demux \cup {table.pmt}]

\* Mutant: the PAT is taken whatever PID delivered it.
HandlePatAnySource(g, table) ==
  IF ~table.valid THEN g
  ELSE IF table.ts_id = 0 THEN g
  ELSE LET removed == IF g.pmt_pid # PID_NULL
                        THEN g.demux \ {g.pmt_pid} ELSE g.demux
       IN  [g EXCEPT !.pmt_pid = table.pmt,
                     !.demux = removed \cup {table.pmt}]

HandlePat(g, table) ==
  IF table.source_pid # PID_PAT THEN g
  ELSE IF ~table.valid THEN g
  ELSE IF table.ts_id = 0 THEN g
  ELSE LET new_pmt_pid == table.pmt
           removed == IF g.pmt_pid # PID_NULL
                        THEN g.demux \ {g.pmt_pid} ELSE g.demux
       IN  [g EXCEPT !.pmt_pid = new_pmt_pid,
                     !.demux = removed \cup {new_pmt_pid}]

\* Mutant: a PMT of another service makes the PCR PID unknown again.
HandlePmtReset(g, opt, table) ==
  IF ~table.valid THEN g
  ELSE IF table.service_id # opt.sid THEN [g EXCEPT !.pcr_pid_ready = FALSE]
  ELSE [g EXCEPT !.pcr_pid = table.pcr_pid, !.pcr_pid_ready = TRUE]

HandlePmt(g, opt, table) ==
  IF ~table.valid THEN g
  ELSE IF table.service_id # opt.sid THEN g
  ELSE [g EXCEPT !.pcr_pid = table.pcr_pid, !.pcr_pid_ready = TRUE]

\* Mutant: an EIT that lists the target event again resumes a stopped filter.
SetPcrRangeResume(g, opt, event) ==
  LET r == UpdatePcrRange(opt, event)
  IN  [g EXCEPT !.start_pcr = r.start_pcr, !.end_pcr = r.end_pcr,
                !.pcr_range_ready = TRUE, !.stop = FALSE]

SetPcrRange(g, opt, event) ==
  LET r == UpdatePcrRange(opt, event)
  IN  [g EXCEPT !.start_pcr = r.start_pcr, !.end_pcr = r.end_pcr,
                !.pcr_range_ready = TRUE]

\* Mutant: a missing target event stops the filter in Streaming too.
ContinueNever(state) == FALSE

\* state_ == kStreaming at lines 303 and 321: keep streaming until the PCR
\* reaches end_pcr_.
ContinueStreaming(state) == state = kStreaming

HandleEit(g, opt, state, table) ==
  IF ~table.valid THEN g
  ELSE IF table.service_id # opt.sid THEN g
  ELSE IF Len(table.events) = 0 THEN [g EXCEPT !.stop = TRUE]
  ELSE IF table.events[1].event_id = opt.eid
    THEN SetPcrRange(g, opt, table.events[1])
  ELSE IF Len(table.events) < 2
    THEN IF ContinueStreaming(state) THEN g ELSE [g EXCEPT !.stop = TRUE]
  ELSE IF table.events[2].event_id = opt.eid
    THEN SetPcrRange(g, opt, table.events[2])
  ELSE IF ContinueStreaming(state) THEN g
  ELSE [g EXCEPT !.stop = TRUE]

handleTable(g, opt, state, table) ==
  IF table.tid = TID_PAT THEN HandlePat(g, table)
  ELSE IF table.tid = TID_PMT THEN HandlePmt(g, opt, table)
  ELSE IF table.tid = TID_EIT_PF_ACT THEN HandleEit(g, opt, state, table)
  ELSE g

\* demux_.feedPacket: a table is completed only on a subscribed PID.
feedPacket(g, opt, state, packet, table) ==
  IF table.tid # TID_NONE /\ packet.pid \in g.demux
    THEN handleTable(g, opt, state, table)
    ELSE g

\* ------------------------------------------------------------ gating ---
Min(a, b) == IF a < b THEN a ELSE b

\* sink_->HandlePacket over `packets` by a sink that accepts `acc` more
\* packets and refuses the next: the packets handed to it.
Sent(packets, acc) ==
  IF Len(packets) <= acc THEN packets ELSE SubSeq(packets, 1, acc + 1)

\* Buffering of one packet of a section: cleared first on PUSI.
SavePacket(buffer, packet) ==
  IF packet.pusi THEN <<packet>> ELSE Append(buffer, packet)

\* Mutant: PAT packets go to the sink at once, whatever pre_streaming is.
LivePatAlways(opt, packet) == packet.pid = PID_PAT

\* Line 96: a packet on the PAT PID goes to the sink at once.
LivePat(opt, packet) == packet.pid = PID_PAT /\ opt.pre_streaming

\* Mutants: the end of the window is never reached; it is reached one tick
\* late (pcr > end_pcr_).
ReachedEndNever(pcr, end_pcr) == FALSE
ReachedEndLate(pcr, end_pcr) == ComparePcr(pcr, end_pcr) > 0

\* Lines 133 and 183: pcr >= end_pcr_.
ReachedEnd(pcr, end_pcr) == ComparePcr(pcr, end_pcr) >= 0

\* Mutants: the window opens one tick early; one tick late (pcr <= start_pcr_).
BeforeStartEarly(pcr, start_pcr) == ComparePcr(pcr, start_pcr) < -1
BeforeStartLate(pcr, start_pcr) == ComparePcr(pcr, start_pcr) <= 0

\* Line 138: pcr < start_pcr_.
BeforeStart(pcr, start_pcr) == ComparePcr(pcr, start_pcr) < 0

\* Lines 154-159.  last_pmt_packets_.clear() runs inside the range-for over
\* last_pmt_packets_, after the first packet was accepted: the iterators of
\* the loop are invalid from then on and the rest of the loop is undefined.
\* The loop goes on over `stale` of the old slots (all of them when the
\* storage is left as it was, fewer when the loop ends early).
PmtVisited(pmt, stale) ==
  IF pmt = <<>> THEN <<>> ELSE SubSeq(pmt, 1, Min(Len(pmt), 1 + stale))

\* Mutant: the PCR field is read without asking whether the packet has one
\* (it reads as 0 when the packet has none).
HasPcrAlways(packet) == TRUE

\* Lines 122 and 174: packet.hasPCR().
HasPcr(packet) == packet.hasPCR

\* Mutant: stop_ is not looked at.
CanceledNever(g) == FALSE

\* Lines 88 and 166: if (stop_).
Canceled(g) == g.stop

Result(state, pat, pmt, sent, result, why, pending, abort) ==
  [state |-> state, pat |-> pat, pmt |-> pmt, fwd |-> sent, ret |-> result,
   cause |-> why, flushed |-> pending, aborted |-> abort]

\* Lines 144-162: the window has been entered.
SendPending(g, opt, pat, pmt, packet, acc, stale) ==
  LET pats == IF opt.pre_streaming THEN <<>> ELSE pat
      visited == PmtVisited(pmt, stale)
      acc2 == acc - Len(pats)
      acc3 == acc2 - Len(visited)
      snap == <<pats, pmt>>
  IN  IF ~opt.pre_streaming /\ pat = <<>>
        THEN \* MIRAKC_ARIB_ASSERT(!last_pat_packets_.empty()) fails
             Result(kWaitReady, pat, pmt, <<>>, FALSE, "assert", snap, TRUE)
      ELSE IF Len(pats) > acc
        THEN Result(kWaitReady, pat, pmt, Sent(pats, acc), FALSE, "sink",
                    snap, FALSE)
      ELSE IF Len(visited) > acc2
        THEN Result(kWaitReady, IF opt.pre_streaming THEN pat ELSE <<>>,
                    IF acc2 = 0 THEN pmt ELSE <<>>,
                    pats \o Sent(visited, acc2), FALSE, "sink", snap, FALSE)
      ELSE Result(kStreaming, IF opt.pre_streaming THEN pat ELSE <<>>, <<>>,
                  pats \o visited \o <<packet>>, acc3 >= 1,
                  IF acc3 >= 1 THEN "forward" ELSE "sink", snap, FALSE)

WaitReady(g, opt, pat, pmt, packet, acc, stale) ==
  IF Canceled(g)
    THEN Result(kWaitReady, pat, pmt, <<>>, FALSE, "stop", <<>>, FALSE)
  ELSE IF LivePat(opt, packet)
    THEN Result(kWaitReady, pat, pmt, <<packet>>, acc >= 1,
                IF acc >= 1 THEN "forward" ELSE "sink", <<>>, FALSE)
  ELSE
    LET pat2 == IF packet.pid = PID_PAT THEN SavePacket(pat, packet) ELSE pat
        pmt2 == IF packet.pid # PID_PAT /\ g.pmt_pid # PID_NULL
                   /\ packet.pid = g.pmt_pid
                  THEN SavePacket(pmt, packet) ELSE pmt
        wait(cause) ==
          Result(kWaitReady, pat2, pmt2, <<>>, TRUE, cause, <<>>, FALSE)
    IN  IF ~g.pcr_pid_ready \/ ~g.pcr_range_ready THEN wait("notready")
        ELSE IF packet.pid # g.pcr_pid THEN wait("notpcrpid")
        ELSE IF ~HasPcr(packet) THEN wait("nopcr")
        ELSE IF ReachedEnd(packet.pcr, g.end_pcr)
          THEN Result(kWaitReady, pat2, pmt2, <<>>, FALSE, "end", <<>>, FALSE)
        ELSE IF BeforeStart(packet.pcr, g.start_pcr) THEN wait("early")
        ELSE SendPending(g, opt, pat2, pmt2, packet, acc, stale)

DoStreaming(g, opt, pat, pmt, packet, acc) ==
  LET forward == Result(kStreaming, pat, pmt, <<packet>>, acc >= 1,
                        IF acc >= 1 THEN "forward" ELSE "sink", <<>>, FALSE)
  IN  IF Canceled(g)
        THEN Result(kStreaming, pat, pmt, <<>>, FALSE, "stop", <<>>, FALSE)
      ELSE IF packet.pid = g.pcr_pid
        THEN IF ~HasPcr(packet) THEN forward
             ELSE IF ReachedEnd(packet.pcr, g.end_pcr)
               THEN Result(kStreaming, pat, pmt, <<>>, FALSE, "end", <<>>,
                           FALSE)
             ELSE forward
      ELSE forward

\* -------------------------------------------------------------- state ---
VARIABLES
  option,             \* option_
  sink,               \* sink_ is set
  demux,              \* PIDs demux_ is subscribed to
  state_, last_pat_packets_, last_pmt_packets_, pmt_pid_, pcr_pid_,
  start_pcr_, end_pcr_, pcr_pid_ready_, pcr_range_ready_, stop_,
  pc,                 \* the caller: "idle", "returned" from HandlePacket,
                      \* "started" / "ended" (back from Start / End), or
                      \* "aborted" by a failed assertion
  falses,             \* why earlier calls returned false: "stop", "end", "sink"
  \* the HandlePacket call that has just returned:
  packet,             \* its packet
  table,              \* the table that packet completes (or NoTable)
  st0,                \* state_ when the call began
  fwd,                \* the packets it handed to the sink, in order
  ret,                \* what it returned
  cause,              \* the statement that returned
  flushed,            \* <<PAT packets, PMT packets>> pending at lines 144-162
  \* what the stream has shown so far:
  last_event,         \* the target event of the latest EIT of option.sid
                      \* that listed it as present or following
  prev_end,           \* the end_pcr_ that the latest EIT received in
                      \* Streaming replaced by another (-1: none)
  prior_pcr,          \* the PCR of the latest packet on pcr_pid_ that earlier
                      \* calls met in Streaming (-1: none); SpecStream only
  \* a call of a helper on its own:
  pure,               \* its arguments and, once it has run, its result
  \* the AirtimeTracker that watches the same service and event:
  tracker             \* done_, the JSON documents fed so far, and its
                      \* HandlePacket call that has just returned

members ==
  <<demux, state_, last_pat_packets_, last_pmt_packets_, pmt_pid_, pcr_pid_,
    start_pcr_, end_pcr_, pcr_pid_ready_, pcr_range_ready_, stop_>>

call == <<packet, table, st0, fwd, ret, cause, flushed>>

history == <<last_event, prev_end, prior_pcr>>

vars == <<option, sink, members, pc, falses, call, history, pure, tracker>>

gating ==
  [pmt_pid |-> pmt_pid_, pcr_pid |-> pcr_pid_, start_pcr |-> start_pcr_,
   end_pcr |-> end_pcr_, pcr_pid_ready |-> pcr_pid_ready_,
   pcr_range_ready |-> pcr_range_ready_, stop |-> stop_, demux |-> demux]

NoPacket == Packet(PID_NULL, FALSE, FALSE, 0)

NoCall ==
  /\ packet = NoPacket
  /\ table = NoTable
  /\ st0 = kWaitReady
  /\ fwd = <<>>
  /\ ret = TRUE
  /\ cause = "none"
  /\ flushed = <<>>

NoEvent == [event_id |-> 0, start_time |-> 0, duration |-> 0]

NoPure == [lhs |-> 0, rhs |-> 0, done |-> FALSE, cmp |-> 0, rev |-> 0]

NoTracker ==
  [done |-> FALSE, out |-> <<>>, pc |-> "idle", table |-> NoTable,
   done0 |-> FALSE, emitted |-> <<>>, ret |-> TRUE]

InitFilter ==
  /\ option \in Options
  /\ tracker = NoTracker
  /\ sink = FALSE
  /\ demux = {PID_PAT, PID_EIT}
  /\ state_ = kWaitReady
  /\ last_pat_packets_ = <<>>
  /\ last_pmt_packets_ = <<>>
  /\ pmt_pid_ = PID_NULL
  /\ pcr_pid_ = PID_NULL
  /\ start_pcr_ = 0
  /\ end_pcr_ = 0
  /\ pcr_pid_ready_ = FALSE
  /\ pcr_range_ready_ = FALSE
  /\ stop_ = FALSE
  /\ pc = "idle"
  /\ falses = {}
  /\ last_event = NoEvent
  /\ prev_end = -1
  /\ prior_pcr = -1
  /\ NoCall

Init == InitFilter /\ pure = NoPure

Connect ==
  /\ pc = "idle"
  /\ ~sink
  /\ sink' = TRUE
  /\ UNCHANGED <<option, members, pc, falses, call, history, pure, tracker>>

\* Lines 45-53.  Start of the sink is called and its result dropped.
Start ==
  /\ pc = "idle"
  /\ pc' = "started"
  /\ ret' = sink
  /\ cause' = IF sink THEN "start" ELSE "nosink"
  /\ st0' = state_
  /\ UNCHANGED <<option, sink, members, falses, packet, table, fwd, flushed,
                 history, pure, tracker>>

\* Lines 55-62.  End returns what End of the sink returns.
End ==
  /\ pc = "idle"
  /\ pc' = "ended"
  /\ \/ ~sink /\ ret' = FALSE /\ cause' = "nosink"
     \/ sink /\ ret' \in BOOLEAN /\ cause' = "finish"
  /\ st0' = state_
  /\ UNCHANGED <<option, sink, members, falses, packet, table, fwd, flushed,
                 history, pure, tracker>>

\* The sections the model buffers are at most MaxBuf packets long.
FitsBuffers(p) ==
  /\ (p.pid = PID_PAT /\ ~p.pusi) => Len(last_pat_packets_) < MaxBuf
  /\ (p.pid \in PmtPids /\ ~p.pusi) => Len(last_pmt_packets_) < MaxBuf

MaxSink == 2 * MaxBuf + 1

\* Mutant: the packet is fed to the demultiplexer before sink_ is looked at.
HandlePacketNoSinkFed(p, t) ==
  /\ ~sink
  /\ LET g == feedPacket(gating, option, state_, p, t)
     IN  /\ pmt_pid_' = g.pmt_pid
         /\ pcr_pid_' = g.pcr_pid
         /\ start_pcr_' = g.start_pcr
         /\ end_pcr_' = g.end_pcr
         /\ pcr_pid_ready_' = g.pcr_pid_ready
         /\ pcr_range_ready_' = g.pcr_range_ready
         /\ stop_' = g.stop
         /\ demux' = g.demux
  /\ packet' = p
  /\ table' = t
  /\ st0' = state_
  /\ fwd' = <<>>
  /\ ret' = FALSE
  /\ cause' = "nosink"
  /\ flushed' = <<>>
  /\ pc' = "returned"
  /\ UNCHANGED <<option, sink, state_, last_pat_packets_, last_pmt_packets_,
                 falses, history, pure, tracker>>

\* Lines 65-68.
HandlePacketNoSink(p, t) ==
  /\ ~sink
  /\ packet' = p
  /\ table' = t
  /\ st0' = state_
  /\ fwd' = <<>>
  /\ ret' = FALSE
  /\ cause' = "nosink"
  /\ flushed' = <<>>
  /\ pc' = "returned"
  /\ UNCHANGED <<option, sink, members, falses, history, pure, tracker>>

\* The target event that table t, dispatched to HandleEit, lists as present
\* or, failing that, as following; the event seen before when it lists none.
Listed(t, seen) ==
  IF t.tid # TID_EIT_PF_ACT \/ ~t.valid \/ t.service_id # option.sid
    THEN seen
  ELSE IF Len(t.events) >= 1 /\ t.events[1].event_id = option.eid
    THEN t.events[1]
  ELSE IF Len(t.events) >= 2 /\ t.events[2].event_id = option.eid
    THEN t.events[2]
  ELSE seen

\* Mutant: the state's handler decides on the members as they were before
\* the table of the packet was dispatched.
CallGateFirst(p, t, acc, stale) ==
  LET g == feedPacket(gating, option, state_, p, t)
  IN  IF state_ = kWaitReady
        THEN <<g, WaitReady(gating, option, last_pat_packets_,
                            last_pmt_packets_, p, acc, stale)>>
        ELSE <<g, DoStreaming(gating, option, last_pat_packets_,
                              last_pmt_packets_, p, acc)>>

\* One call with the sink connected: the table is dispatched, then the state's
\* handler runs.
Call(p, t, acc, stale) ==
  LET g == feedPacket(gating, option, state_, p, t)
  IN  IF state_ = kWaitReady
        THEN <<g, WaitReady(g, option, last_pat_packets_, last_pmt_packets_,
                            p, acc, stale)>>
        ELSE <<g, DoStreaming(g, option, last_pat_packets_,
                              last_pmt_packets_, p, acc)>>

HandlePacketFed(p, t, acc, stale) ==
  /\ sink
  /\ \E c \in {Call(p, t, acc, stale)} :
       LET g == c[1]
           r == c[2]
       IN  /\ pmt_pid_' = g.pmt_pid
           /\ pcr_pid_' = g.pcr_pid
           /\ start_pcr_' = g.start_pcr
           /\ end_pcr_' = g.end_pcr
           /\ pcr_pid_ready_' = g.pcr_pid_ready
           /\ pcr_range_ready_' = g.pcr_range_ready
           /\ stop_' = g.stop
           /\ demux' = g.demux
           /\ state_' = r.state
           /\ last_pat_packets_' = r.pat
           /\ last_pmt_packets_' = r.pmt
           /\ pc' = IF r.aborted THEN "aborted" ELSE "returned"
           /\ fwd' = r.fwd
           /\ ret' = r.ret
           /\ cause' = r.cause
           /\ flushed' = r.flushed
           /\ prev_end' = IF state_ = kStreaming /\ g.end_pcr # end_pcr_
                             THEN end_pcr_ ELSE prev_end
  /\ last_event' = IF p.pid \in demux THEN Listed(t, last_event)
                                       ELSE last_event
  /\ UNCHANGED prior_pcr
  /\ packet' = p
  /\ table' = t
  /\ st0' = state_
  /\ UNCHANGED <<option, sink, falses, pure, tracker>>

\* The old slots the PMT loop can still visit after the clear().
StaleChoices ==
  {MaxBuf - 1} \cup {n \in 0..(MaxBuf - 1) : n + 1 < Len(last_pmt_packets_)}

HandlePacket ==
  /\ pc = "idle"
  /\ \E p \in Packets :
       /\ FitsBuffers(p)
       /\ \E t \in {NoTable} \cup TablesOn(p.pid) :
            \/ HandlePacketNoSink(p, t)
            \/ \E stale \in StaleChoices :
                 \E all \in {Call(p, t, MaxSink, stale)} :
                   \* the sink accepts everything, or refuses one of the
                   \* packets the call hands to it
                   \E acc \in {MaxSink} \cup (0..(Len(all[2].fwd) - 1)) :
                     HandlePacketFed(p, t, acc, stale)

\* The caller has the result; it may call again, whatever the result was.
\* With `note`, the PCR that the call met in Streaming is kept in prior_pcr.
ReturnWith(note) ==
  /\ pc \in {"returned", "started", "ended"}
  /\ pc' = "idle"
  /\ falses' = IF pc = "returned" /\ ~ret /\ cause \in {"stop", "end", "sink"}
                 THEN falses \cup {cause} ELSE falses
  /\ packet' = NoPacket
  /\ table' = NoTable
  /\ st0' = kWaitReady
  /\ fwd' = <<>>
  /\ ret' = TRUE
  /\ cause' = "none"
  /\ flushed' = <<>>
  /\ prior_pcr' = IF /\ note
                      /\ pc = "returned" /\ cause # "nosink"
                      /\ state_ = kStreaming
                      /\ packet.pid = pcr_pid_ /\ packet.hasPCR
                     THEN packet.pcr ELSE prior_pcr
  /\ UNCHANGED <<option, sink, members, last_event, prev_end, pure, tracker>>

Return == ReturnWith(FALSE)

Next == Connect \/ Start \/ End \/ HandlePacket \/ Return

Spec == Init /\ [][Next]_vars

\* The same filter, watched for the order of the PCR values it is given.
ReturnNoting == ReturnWith(TRUE)

NextStream == Connect \/ Start \/ End \/ HandlePacket \/ ReturnNoting

SpecStream == Init /\ [][NextStream]_vars

\* ------------------------------------------- ComparePcr on its own ---
\* PCR values at the ends of the counter, at its middle, and in between.
PcrEdge ==
  { 0, 1, 10, 45000, kPcrUpperBound \div 2 - 1, kPcrUpperBound \div 2,
    kPcrUpperBound \div 2 + 1, kPcrUpperBound - 10, kPcrUpperBound - 1 }

InitPcr ==
  /\ InitFilter
  /\ pure \in { [lhs |-> a, rhs |-> b, done |-> FALSE, cmp |-> 0, rev |-> 0] :
                a \in PcrEdge, b \in PcrEdge }

\* ComparePcr(lhs, rhs) and ComparePcr(rhs, lhs) are evaluated.
Compare ==
  /\ ~pure.done
  /\ pure' = [pure EXCEPT !.done = TRUE,
                          !.cmp = ComparePcr(pure.lhs, pure.rhs),
                          !.rev = ComparePcr(pure.rhs, pure.lhs)]
  /\ UNCHANGED <<option, sink, members, pc, falses, call, history, tracker>>

NextPcr == Compare

SpecPcr == InitPcr /\ [][NextPcr]_vars

\* ------------------------------------- ConvertTimeToPcr on its own ---
\* Times before and after the clock, up to more than two turns of the
\* counter away from it, and clocks whose PCR is at either end of the
\* counter or past it.
TimeOffsets ==
  LET turn == kPcrUpperBound \div kPcrTicksPerMs
  IN  { -2 * turn - 1, -turn - 1, -turn, -501, -500, -1, 0, 1, 500, turn,
        turn + 1, 2 * turn + 1 }

ClockPcrs ==
  {0, 45000, kPcrUpperBound - 1, kPcrUpperBound, kPcrUpperBound + 90}

ClockTimes == {5000, 100000}

InitTime ==
  /\ InitFilter
  /\ pure \in { [time |-> c + d, clock_time |-> c, clock_pcr |-> p,
                  done |-> FALSE, pcr |-> 0, next |-> 0] :
                c \in ClockTimes, d \in TimeOffsets, p \in ClockPcrs }

\* ConvertTimeToPcr(time) and ConvertTimeToPcr(time + 1 ms) are evaluated.
Convert ==
  /\ ~pure.done
  /\ LET opt == [clock_pcr |-> pure.clock_pcr, clock_time |-> pure.clock_time]
     IN  pure' = [pure EXCEPT !.done = TRUE,
                              !.pcr = ConvertTimeToPcr(opt, pure.time),
                              !.next = ConvertTimeToPcr(opt, pure.time + 1)]
  /\ UNCHANGED <<option, sink, members, pc, falses, call, history, tracker>>

NextTime == Convert

SpecTime == InitTime /\ [][NextTime]_vars

\* ----------------------------------------------------- AirtimeTracker ---
\* JSON documents the model lets the tracker feed.
MaxRecords == 2

AirtimeTrackerOption == [sid |-> 1, eid |-> 4096]

\* The tables that the packets complete for the tracker's demultiplexer,
\* which is subscribed to the EIT PID only: an EIT p/f actual, a table of
\* another id, or none.
AirtimeTables ==
  { [tid |-> t.tid, valid |-> t.valid, onetw_id |-> 4, ts_id |-> t.ts_id,
     service_id |-> t.service_id, events |-> t.events] :
    t \in EitTables(PID_EIT)
           \cup { NoTable,
                  Table(TID_OTHER, PID_EIT, TRUE, 0, PID_NULL, 0, PID_NULL,
                        <<>>) } }

\* JsonlSource::FeedDocument: the document goes out as one record.
FeedDocument(out, json) == Append(out, json)

\* Mutant: the duration is written in seconds.
WriteEventInfoSeconds(out, eit, event) ==
  FeedDocument(out, [nid |-> eit.onetw_id, tsid |-> eit.ts_id,
                     sid |-> eit.service_id, eid |-> event.event_id,
                     startTime |-> event.start_time,
                     duration |-> event.duration])

\* Times are milliseconds since the Unix epoch.
WriteEventInfo(out, eit, event) ==
  FeedDocument(out, [nid |-> eit.onetw_id, tsid |-> eit.ts_id,
                     sid |-> eit.service_id, eid |-> event.event_id,
                     startTime |-> event.start_time,
                     duration |-> event.duration * MilliSecPerSec])

\* <<done_, documents fed>> after HandleEit of the tracker.
AirtimeHandleEit(opt, done, out, eit) ==
  IF ~eit.valid THEN <<done, out>>
  ELSE IF eit.service_id # opt.sid THEN <<done, out>>
  ELSE IF Len(eit.events) = 0 THEN <<TRUE, out>>
  ELSE IF eit.events[1].event_id = opt.eid
    THEN <<done, WriteEventInfo(out, eit, eit.events[1])>>
  ELSE IF Len(eit.events) < 2 THEN <<TRUE, out>>
  ELSE IF eit.events[2].event_id = opt.eid
    THEN <<done, WriteEventInfo(out, eit, eit.events[2])>>
  ELSE <<TRUE, out>>

AirtimeHandleTable(opt, done, out, t) ==
  IF t.tid = TID_EIT_PF_ACT THEN AirtimeHandleEit(opt, done, out, t)
  ELSE <<done, out>>

AirtimeHandlePacket ==
  /\ tracker.pc = "idle"
  /\ Len(tracker.out) < MaxRecords
  /\ \E t \in AirtimeTables :
       LET r == AirtimeHandleTable(AirtimeTrackerOption, tracker.done,
                                   tracker.out, t)
       IN  tracker' = [done |-> r[1], out |-> r[2], pc |-> "returned",
                       table |-> t, done0 |-> tracker.done,
                       emitted |-> SubSeq(r[2], Len(tracker.out) + 1,
                                          Len(r[2])),
                       ret |-> ~r[1]]
  /\ UNCHANGED <<option, sink, members, pc, falses, call, history, pure>>

AirtimeReturn ==
  /\ tracker.pc = "returned"
  /\ tracker' = [NoTracker EXCEPT !.done = tracker.done, !.out = tracker.out]
  /\ UNCHANGED <<option, sink, members, pc, falses, call, history, pure>>

NextAirtime == AirtimeHandlePacket \/ AirtimeReturn

SpecAirtime == Init /\ [][NextAirtime]_vars

\* ------------------------------------------------------------- claims ---
Range(q) == {q[i] : i \in 1..Len(q)}

Sign(x) == IF x > 0 THEN 1 ELSE IF x < 0 THEN -1 ELSE 0

\* How far a is ahead of b on the circle of PCR values.
Ahead(a, b) == (a - b + kPcrUpperBound) % kPcrUpperBound

\* C6: ComparePcr orders PCR values across the wrap.  For a and b less than
\* half the circle apart, ComparePcr(a, b) is positive exactly when a is
\* after b on the circle, negative exactly when a is before b, and zero
\* exactly when a = b; ComparePcr(10, kPcrUpperBound - 10) is positive.
C6_OrderAcrossWrap ==
  pure.done =>
    LET a == pure.lhs
        b == pure.rhs
        half == kPcrUpperBound \div 2
    IN  Min(Ahead(a, b), Ahead(b, a)) < half =>
          /\ pure.cmp > 0 <=> (a # b /\ Ahead(a, b) < half)
          /\ pure.cmp < 0 <=> (a # b /\ Ahead(b, a) < half)
          /\ pure.cmp = 0 <=> a = b

\* C7: ComparePcr is antisymmetric in sign: for a # b,
\* sign(ComparePcr(a, b)) = -sign(ComparePcr(b, a)).
C7_Antisymmetric ==
  (pure.done /\ pure.lhs # pure.rhs) => Sign(pure.cmp) = -Sign(pure.rev)

\* A HandlePacket call has just ended.
Handled == pc \in {"returned", "aborted"}

\* The call that has just returned ran WaitReady / DoStreaming.
InWaitReady == Handled /\ cause # "nosink" /\ st0 = kWaitReady
InStreaming == Handled /\ cause # "nosink" /\ st0 = kStreaming

\* The packets pending at lines 144-162 of the call, if it got there.
Pending ==
  IF flushed = <<>> THEN {} ELSE Range(flushed[1]) \cup Range(flushed[2])

\* C1 as stated: a packet is handed to the sink by a call that begins in
\* WaitReady only if it is (a) the current PAT-PID packet with pre_streaming
\* set, (b) a buffered PAT/PMT packet flushed by the call that performs the
\* transition to Streaming, or (c) the PCR packet that triggers that
\* transition; no other packet ingested in WaitReady reaches the sink (a
\* call that begins in Streaming hands over its own packet only).
C1_OnlyAtTransition ==
  /\ InWaitReady =>
       \A i \in 1..Len(fwd) :
         \/ fwd[i] = packet /\ packet.pid = PID_PAT /\ option.pre_streaming
         \/ state_ = kStreaming /\ fwd[i] \in Pending
         \/ state_ = kStreaming /\ fwd[i] = packet /\ i = Len(fwd)
  /\ InStreaming => \A i \in 1..Len(fwd) : fwd[i] = packet

\* C1 as amended: (b) is any call whose PCR packet entered the window; that
\* call performs the transition unless the sink refuses a flushed packet,
\* and then the state stays WaitReady.
C1_OnlyAtWindowEntry ==
  /\ InWaitReady =>
       \A i \in 1..Len(fwd) :
         \/ fwd[i] = packet /\ packet.pid = PID_PAT /\ option.pre_streaming
         \/ flushed # <<>> /\ fwd[i] \in Pending
         \/ state_ = kStreaming /\ fwd[i] = packet /\ i = Len(fwd)
  /\ InStreaming => \A i \in 1..Len(fwd) : fwd[i] = packet

\* The sink took a flushed packet and refused the next one: no transition.
C1_Witness ==
  /\ InWaitReady
  /\ state_ = kWaitReady
  /\ flushed # <<>>
  /\ Len(fwd) >= 2
  /\ ~ret

\* C2: state_ goes from WaitReady to Streaming only in a HandlePacket call
\* whose packet is on pcr_pid and carries a PCR p with
\* ComparePcr(p, start_pcr) >= 0 and ComparePcr(p, end_pcr) < 0 (the values
\* after the packet's table dispatch), with pcr_pid_ready and
\* pcr_range_ready true and stop false; no other step makes it Streaming.
C2_StreamingEntry ==
  [][ (state_ # kStreaming /\ state_' = kStreaming) =>
        /\ pc = "idle" /\ pc' = "returned" /\ sink
        /\ packet'.pid = pcr_pid_'
        /\ packet'.hasPCR
        /\ ComparePcr(packet'.pcr, start_pcr_') >= 0
        /\ ComparePcr(packet'.pcr, end_pcr_') < 0
        /\ pcr_pid_ready_' /\ pcr_range_ready_' /\ ~stop_' ]_vars

C2_Witness ==
  /\ InWaitReady
  /\ state_ = kStreaming
  /\ packet.pcr = start_pcr_
  /\ start_pcr_ > end_pcr_

\* C3 as stated: after any HandlePacket return of false (stop set, PCR at or
\* past end_pcr, the sink refusing a packet), no later call hands a packet to
\* the sink.
C3_NothingAfterFalse ==
  (Handled /\ falses # {}) => fwd = <<>>

\* C3 as amended: after a HandlePacket return of false that stop caused,
\* every later call returns false and hands no packet to the sink.
C3_NothingAfterStop ==
  (Handled /\ "stop" \in falses) => (fwd = <<>> /\ ~ret)

\* A live PAT packet after the filter was stopped.
C3_Witness ==
  /\ InWaitReady
  /\ "stop" \in falses
  /\ option.pre_streaming
  /\ packet.pid = PID_PAT
  /\ ~stop_ \/ table.tid = TID_NONE

\* C4: at the transition to Streaming with pre_streaming false and a sink
\* that accepts every packet, the sink receives in that call every packet of
\* last_pat_packets in order, then every packet of last_pmt_packets in order
\* (also when the PMT section spans several packets), then the triggering
\* PCR packet; afterwards both buffers are empty and state is Streaming.
C4_FlushOrder ==
  (InWaitReady /\ flushed # <<>> /\ ~option.pre_streaming
     /\ cause = "forward" /\ "sink" \notin falses) =>
    /\ fwd = flushed[1] \o flushed[2] \o <<packet>>
    /\ last_pat_packets_ = <<>>
    /\ last_pmt_packets_ = <<>>
    /\ state_ = kStreaming

\* C5: every packet handed to the sink by a call that begins in Streaming is
\* off pcr_pid, or carries no PCR, or has ComparePcr(PCR, end_pcr) < 0
\* against the end_pcr current after the packet's table dispatch.
C5_StreamingBeforeEnd ==
  InStreaming =>
    \A i \in 1..Len(fwd) :
      \/ fwd[i].pid # pcr_pid_
      \/ ~fwd[i].hasPCR
      \/ ComparePcr(fwd[i].pcr, end_pcr_) < 0

C5_Witness ==
  /\ InStreaming
  /\ fwd = <<packet>>
  /\ packet.pid = pcr_pid_
  /\ packet.hasPCR
  /\ packet.pcr < end_pcr_
  /\ end_pcr_ < start_pcr_
  /\ ret

\* C8: in both states, with stop false (and, in WaitReady, pcr_pid_ready and
\* pcr_range_ready true), a packet on pcr_pid with a PCR p such that
\* ComparePcr(p, end_pcr) >= 0, p = end_pcr included, makes HandlePacket
\* return false; nothing is handed to the sink and the state does not become
\* Streaming.
C8_EndIsTerminal ==
  ( /\ InWaitReady \/ InStreaming
    /\ ~stop_
    /\ st0 = kWaitReady => (pcr_pid_ready_ /\ pcr_range_ready_)
    /\ packet.pid = pcr_pid_
    /\ packet.hasPCR
    /\ ComparePcr(packet.pcr, end_pcr_) >= 0 ) =>
    /\ ~ret
    /\ fwd = <<>>
    /\ state_ = st0
    /\ pc = "returned"

C8_Witness ==
  /\ InWaitReady
  /\ ~stop_
  /\ packet.pid = pcr_pid_
  /\ packet.hasPCR
  /\ packet.pcr = end_pcr_
  /\ pcr_range_ready_
  /\ last_pmt_packets_ # <<>>
  /\ ~ret

C10_EitDecision ==
  [][ ( /\ pc = "idle" /\ pc' \in {"returned", "aborted"} /\ sink
        /\ table'.tid = TID_EIT_PF_ACT
        /\ table'.valid
        /\ table'.service_id = option.sid ) =>
      LET es == table'.events
          rangeOf(e) ==
            /\ start_pcr_' = UpdatePcrRange(option, e).start_pcr
            /\ end_pcr_' = UpdatePcrRange(option, e).end_pcr
            /\ pcr_range_ready_'
            /\ stop_' = stop_
      IN  IF Len(es) = 0 THEN stop_'
          ELSE IF es[1].event_id = option.eid THEN rangeOf(es[1])
          ELSE IF Len(es) >= 2 /\ es[2].event_id = option.eid
            THEN rangeOf(es[2])
          ELSE IF state_ = kWaitReady THEN stop_'
          ELSE UNCHANGED <<stop_, start_pcr_, end_pcr_, pcr_range_ready_,
                           pmt_pid_, pcr_pid_, pcr_pid_ready_, demux>> ]_vars

\* In Streaming, an EIT whose two events are not the target: still running.
C10_Witness ==
  /\ InStreaming
  /\ table.tid = TID_EIT_PF_ACT
  /\ table.valid
  /\ table.service_id = option.sid
  /\ Len(table.events) = 2
  /\ table.events[1].event_id # option.eid
  /\ table.events[2].event_id # option.eid
  /\ ~stop_
  /\ fwd = <<packet>>

\* time_to_pcr as the specification states it.
TimeToPcr(clock_pcr, clock_time, time) ==
  (clock_pcr + 90 * (time - clock_time)) % kPcrUpperBound

\* C12: ConvertTimeToPcr(time) with the clock (clock_time, clock_pcr) is
\* (clock_pcr + 90 * (time - clock_time)) mod kPcrUpperBound, a value in
\* [0, kPcrUpperBound), for times before and after clock_time and every
\* clock_pcr >= 0; so it is clock_pcr mod kPcrUpperBound at time =
\* clock_time, and the results for time and time + 1 ms differ by exactly
\* 90 modulo kPcrUpperBound.
C12_TimeToPcr ==
  pure.done =>
    /\ pure.pcr = TimeToPcr(pure.clock_pcr, pure.clock_time, pure.time)
    /\ pure.pcr \in 0..(kPcrUpperBound - 1)
    /\ pure.time = pure.clock_time =>
         pure.pcr = pure.clock_pcr % kPcrUpperBound
    /\ (pure.next - pure.pcr) % kPcrUpperBound = 90

\* A time more than a turn of the counter before the clock: the loop adds
\* kPcrUpperBound more than once.
C12_Witness ==
  /\ pure.done
  /\ pure.clock_pcr + 90 * (pure.time - pure.clock_time) < -kPcrUpperBound
  /\ pure.pcr > 0

WindowStart(e) ==
  TimeToPcr(option.clock_pcr, option.clock_time,
            e.start_time - option.start_margin)

WindowEnd(e) ==
  TimeToPcr(option.clock_pcr, option.clock_time,
            e.start_time + e.duration * 1000 + option.end_margin)

\* C11: whenever pcr_range_ready is true, in WaitReady and in Streaming,
\* (start_pcr, end_pcr) is (time_to_pcr(E.start_time - start_margin),
\* time_to_pcr(E.start_time + E.duration * 1000 + end_margin)) for E the
\* target event of the latest EIT of option.sid that listed the target as
\* present or following; a window replaced during Streaming decides from
\* then on: a packet on pcr_pid whose PCR compares at or past the new
\* end_pcr makes HandlePacket return false, also before the old end_pcr.
C11_WindowIsLatest ==
  /\ pcr_range_ready_ =>
       /\ last_event # NoEvent
       /\ start_pcr_ = WindowStart(last_event)
       /\ end_pcr_ = WindowEnd(last_event)
  /\ ( /\ InStreaming
       /\ ~stop_
       /\ packet.pid = pcr_pid_
       /\ packet.hasPCR
       /\ ComparePcr(packet.pcr, WindowEnd(last_event)) >= 0 ) =>
       (~ret /\ fwd = <<>>)

\* The window was replaced in Streaming, and the stream ends at the new
\* end_pcr, before the old one.
C11_Witness ==
  /\ InStreaming
  /\ prev_end # -1
  /\ packet.hasPCR
  /\ packet.pcr = end_pcr_
  /\ ComparePcr(packet.pcr, prev_end) < 0
  /\ cause = "end"
  /\ ~ret

\* C13: once stop is set, every later HandlePacket call returns false and
\* hands no packet to the sink, in WaitReady and in Streaming, with
\* pre_streaming set or not, whatever the packet and its table (an EIT that
\* lists the target event again does not resume the filter); stop is never
\* cleared.
C13_StopIsFinal ==
  [][ /\ stop_ => stop_'
      /\ (stop_ /\ pc = "idle" /\ pc' \in {"returned", "aborted"}) =>
           (~ret' /\ fwd' = <<>> /\ pc' = "returned") ]_vars

\* A stopped filter in Streaming is handed an EIT that lists the target event.
C13_Witness ==
  /\ InStreaming
  /\ "stop" \in falses
  /\ table.tid = TID_EIT_PF_ACT
  /\ table.valid
  /\ table.service_id = option.sid
  /\ Len(table.events) = 2
  /\ table.events[2].event_id = option.eid
  /\ stop_
  /\ ~ret

\* HandlePacket has just run with the sink connected.
Fed == pc = "idle" /\ pc' \in {"returned", "aborted"} /\ sink

\* C14: after any sequence of tables the demultiplexer is subscribed to
\* exactly the PAT PID, the EIT PID and the tracked pmt_pid when one is
\* known; pmt_pid is the PID that the latest accepted PAT names for
\* option.sid, and a PMT PID that a later PAT replaced is subscribed no more.
C14_DemuxTracksPat ==
  [][ LET accepted == /\ Fed
                      /\ table'.tid = TID_PAT
                      /\ table'.source_pid = PID_PAT
                      /\ table'.valid
                      /\ table'.ts_id # 0
      IN  /\ pmt_pid_' = IF accepted THEN table'.pmt ELSE pmt_pid_
          /\ demux' = {PID_PAT, PID_EIT}
                        \cup (IF pmt_pid_' = PID_NULL THEN {} ELSE {pmt_pid_'})
          /\ Cardinality(demux' \ {PID_PAT, PID_EIT}) <= 1 ]_vars

\* A PAT has moved the PMT to another PID while packets of the old one are
\* buffered.
C14_Witness ==
  /\ Handled
  /\ table.tid = TID_PAT
  /\ pmt_pid_ = table.pmt
  /\ last_pmt_packets_ # <<>>
  /\ last_pmt_packets_[1].pid # pmt_pid_
  /\ last_pmt_packets_[1].pid \notin demux

\* C15: a table that its handler rejects changes none of pmt_pid, pcr_pid,
\* start_pcr, end_pcr, pcr_pid_ready, pcr_range_ready, stop and the
\* subscriptions of the demultiplexer: a PAT delivered on another PID than
\* the PAT PID or with ts_id 0, a PMT of another service than option.sid, an
\* EIT of another service than option.sid.
C15_RejectedTableIsInert ==
  [][ ( /\ Fed
        /\ \/ table'.tid = TID_PAT
              /\ (table'.source_pid # PID_PAT \/ table'.ts_id = 0)
           \/ table'.tid = TID_PMT /\ table'.service_id # option.sid
           \/ table'.tid = TID_EIT_PF_ACT /\ table'.service_id # option.sid ) =>
      UNCHANGED <<pmt_pid_, pcr_pid_, start_pcr_, end_pcr_, pcr_pid_ready_,
                  pcr_range_ready_, stop_, demux>> ]_vars

\* The PAT that comes on the EIT PID names another PMT PID than the tracked
\* one.
C15_Witness ==
  /\ Handled
  /\ sink
  /\ table.tid = TID_PAT
  /\ table.source_pid = PID_EIT
  /\ table.valid
  /\ table.ts_id # 0
  /\ pmt_pid_ # PID_NULL
  /\ pmt_pid_ # table.pmt

\* C16: with pre_streaming set and stop false, every packet on the PAT PID
\* that a call in WaitReady is given goes to the sink in that call, the call
\* returns what the sink returned, and last_pat_packets stays empty; at the
\* transition to Streaming the sink receives the buffered PMT packets
\* followed by the triggering PCR packet and nothing else: no PAT packet is
\* flushed.
C16_PreStreaming ==
  option.pre_streaming =>
    /\ last_pat_packets_ = <<>>
    /\ (InWaitReady /\ ~stop_ /\ packet.pid = PID_PAT) =>
         /\ fwd = <<packet>>
         /\ ret <=> cause = "forward"
         /\ ~ret <=> cause = "sink"
    /\ (InWaitReady /\ state_ = kStreaming) =>
         /\ flushed[1] = <<>>
         /\ fwd = flushed[2] \o <<packet>>

\* C17: with no sink connected, Start, End and HandlePacket each return
\* false, and HandlePacket changes nothing: the packet is not fed to the
\* demultiplexer, no table handler runs, and the state, the buffers, pmt_pid,
\* pcr_pid, the PCR range, the ready flags, stop and the subscriptions keep
\* their values.
C17_NoSink ==
  [][ (~sink /\ pc = "idle" /\ pc' # "idle") =>
        /\ ~ret'
        /\ fwd' = <<>>
        /\ UNCHANGED members ]_vars

\* A packet that completes an acceptable PAT, with no sink connected.
C17_Witness ==
  /\ pc = "returned"
  /\ ~sink
  /\ packet.pid = PID_PAT
  /\ table.tid = TID_PAT
  /\ table.valid
  /\ table.ts_id # 0
  /\ pmt_pid_ = PID_NULL
  /\ ~ret

\* C18: for every EIT p/f actual of the tracker's sid: exactly one JSON
\* record (nid, tsid, sid, eid, startTime, duration of the matching event,
\* times in milliseconds) is emitted and done is left as it was when the
\* target is events[0], or is events[1] while events[0] is not the target;
\* otherwise (no event, one event that is not the target, two events
\* neither of which is the target) no record is emitted and done is set.
\* HandlePacket returns false from the call that sets done on, and done is
\* never cleared.
C18_AirtimeRecords ==
  tracker.pc = "returned" =>
    LET t == tracker.table
        o == AirtimeTrackerOption
        record(e) == [nid |-> t.onetw_id, tsid |-> t.ts_id,
                      sid |-> t.service_id, eid |-> o.eid,
                      startTime |-> e.start_time,
                      duration |-> e.duration * 1000]
        first == Len(t.events) >= 1 /\ t.events[1].event_id = o.eid
        second == /\ Len(t.events) >= 2
                  /\ t.events[1].event_id # o.eid
                  /\ t.events[2].event_id = o.eid
    IN  /\ (t.tid = TID_EIT_PF_ACT /\ t.valid /\ t.service_id = o.sid) =>
             IF first
               THEN /\ tracker.emitted = <<record(t.events[1])>>
                    /\ tracker.done = tracker.done0
             ELSE IF second
               THEN /\ tracker.emitted = <<record(t.events[2])>>
                    /\ tracker.done = tracker.done0
             ELSE tracker.emitted = <<>> /\ tracker.done
        /\ tracker.ret <=> ~tracker.done
        /\ tracker.done0 => tracker.done

\* The tracker is done and an EIT lists the target event as following: a
\* record is emitted all the same, and the call returns false.
C18_Witness ==
  /\ tracker.pc = "returned"
  /\ tracker.done0
  /\ tracker.table.tid = TID_EIT_PF_ACT
  /\ Len(tracker.table.events) = 2
  /\ Len(tracker.emitted) = 1
  /\ tracker.emitted[1].startTime = tracker.table.events[2].start_time
  /\ ~tracker.ret

\* C19: the stream ends when the PCR crosses the current end_pcr, also
\* across the wrap: in Streaming with stop false, when the PCR values on
\* pcr_pid advance by steps of less than half the counter, the first packet
\* whose PCR is at or after end_pcr on the circle (less than half the
\* counter past it) makes HandlePacket return false, also when end_pcr is
\* just below kPcrUpperBound and the PCR has wrapped to a small value.
C19_EndsAcrossWrap ==
  LET half == kPcrUpperBound \div 2
  IN  ( /\ InStreaming
        /\ ~stop_
        /\ packet.pid = pcr_pid_
        /\ packet.hasPCR
        /\ prior_pcr # -1
        /\ Ahead(packet.pcr, prior_pcr) < half
        /\ Ahead(end_pcr_, prior_pcr) \in 1..(half - 1)
        /\ Ahead(packet.pcr, end_pcr_) < half ) =>
        (~ret /\ cause = "end" /\ fwd = <<>>)

\* C20: within one HandlePacket call the table that the packet completes is
\* applied before the gating decision for that packet: the decision is taken
\* on the stop, pcr_pid, pcr_pid_ready, start_pcr, end_pcr and
\* pcr_range_ready that the table leaves.  The call whose packet completes an
\* EIT of option.sid without events returns false itself and hands nothing
\* to the sink, in WaitReady and in Streaming.
C20_TablesBeforeGating ==
  (Handled /\ cause # "nosink") =>
    /\ ( /\ table.tid = TID_EIT_PF_ACT
         /\ table.valid
         /\ table.service_id = option.sid
         /\ Len(table.events) = 0 ) =>
         (~ret /\ fwd = <<>> /\ stop_)
    /\ cause = "stop" <=> stop_
    /\ (st0 = kWaitReady /\ ~stop_
          /\ ~(packet.pid = PID_PAT /\ option.pre_streaming)) =>
         /\ cause = "notready" <=> ~(pcr_pid_ready_ /\ pcr_range_ready_)
         /\ cause = "notpcrpid" <=>
              (pcr_pid_ready_ /\ pcr_range_ready_ /\ packet.pid # pcr_pid_)
    /\ (~stop_ /\ cause = "end") =>
         (packet.pid = pcr_pid_ /\ ComparePcr(packet.pcr, end_pcr_) >= 0)

\* The packet that completes the EIT without events, in Streaming: the call
\* that sets stop is the first to return false.
C20_Witness ==
  /\ InStreaming
  /\ table.tid = TID_EIT_PF_ACT
  /\ table.valid
  /\ table.service_id = option.sid
  /\ Len(table.events) = 0
  /\ falses = {}
  /\ cause = "stop"
  /\ ~ret

\* C21: a packet on pcr_pid that carries no PCR never ends the filter by
\* itself and never changes the state: in WaitReady (both ready flags true,
\* stop false) HandlePacket returns true, hands nothing to the sink and
\* stays in WaitReady; in Streaming (stop false) the packet is handed to the
\* sink and the call returns what the sink returned, end_pcr not being
\* looked at.
C21_NoPcrIsLenient ==
  (~stop_ /\ packet.pid = pcr_pid_ /\ ~packet.hasPCR) =>
    /\ (InWaitReady /\ pcr_pid_ready_ /\ pcr_range_ready_) =>
         (ret /\ fwd = <<>> /\ state_ = kWaitReady /\ cause = "nopcr")
    /\ InStreaming =>
         /\ fwd = <<packet>>
         /\ ret <=> cause = "forward"
         /\ ~ret <=> cause = "sink"
         /\ state_ = kStreaming

\* In Streaming, with the window known, a packet without PCR on pcr_pid was
\* handed to the sink, which took it.
C21_Witness ==
  /\ InStreaming
  /\ ~stop_
  /\ pcr_range_ready_
  /\ packet.pid = pcr_pid_
  /\ ~packet.hasPCR
  /\ fwd = <<packet>>
  /\ ret
  /\ state_ = kStreaming

\* In WaitReady, with both flags set, a packet without PCR on pcr_pid was
\* dropped and the call returned true.
C21_WitnessWaitReady ==
  /\ InWaitReady
  /\ ~stop_
  /\ pcr_pid_ready_ /\ pcr_range_ready_
  /\ packet.pid = pcr_pid_
  /\ ~packet.hasPCR
  /\ cause = "nopcr"

\* C22: the assertion at the transition never fails: whenever WaitReady gets
\* to the window-entered step with pre_streaming false, last_pat_packets is
\* not empty, for every sequence of packets, tables and sink results.
C22_AssertionHolds ==
  /\ pc # "aborted"
  /\ (InWaitReady /\ flushed # <<>> /\ ~option.pre_streaming) =>
       flushed[1] # <<>>

\* C23: the gating state only moves forward: state never goes from
\* Streaming back to WaitReady, and pcr_pid_ready, pcr_range_ready and stop,
\* once true, stay true; when the sink refuses a packet of the PAT/PMT flush,
\* the call returns false and the state is still WaitReady: Streaming is
\* entered only by a call that got as far as the triggering packet.
C23_OnlyForward ==
  [][ /\ state_ = kStreaming => state_' = kStreaming
      /\ pcr_pid_ready_ => pcr_pid_ready_'
      /\ pcr_range_ready_ => pcr_range_ready_'
      /\ stop_ => stop_'
      /\ (Fed /\ flushed' # <<>> /\ cause' = "sink"
             /\ fwd'[Len(fwd')] # packet') =>
           (~ret' /\ state_' = kWaitReady)
      /\ (state_ = kWaitReady /\ state_' = kStreaming) =>
           (Fed /\ fwd' # <<>> /\ fwd'[Len(fwd')] = packet') ]_vars

\* The sink took the PAT packets and refused a PMT packet.
C23_Witness ==
  /\ InWaitReady
  /\ pcr_pid_ready_ /\ pcr_range_ready_
  /\ cause = "sink"
  /\ fwd[Len(fwd)].pid = pmt_pid_
  /\ last_pat_packets_ = <<>>
  /\ state_ = kWaitReady
  /\ ~ret

=============================================================================
